---- MODULE Spec2Model ----
(***************************************************************************)
(* Distributed web-log analytics: the statistics accumulator               *)
(* (analysis_core.py) and the MPI head/worker batch protocol               *)
(* (parallel_analyzer.py), with the dashboard as a reader of the report.   *)
(*                                                                         *)
(* A Counter is an insertion-ordered dict: it is modelled as a sequence of *)
(* <<key, count>> pairs in insertion order, because most_common breaks     *)
(* ties by that order.  An optional value (Python None) is a sequence of   *)
(* length 0 or 1.                                                          *)
(***************************************************************************)
EXTENDS Integers, Sequences, FiniteSets, TLC

\* ---------------------------------------------------------------- bounds
\* Longest dataset absorbed in the accumulator-algebra specification.
MaxData == 3
\* Longest roster of log files in the batch protocol.
MaxFiles == 2
\* Most requests an accumulator grows to when absorbs and merges are
\* applied in any order.
MaxRequests == 3
\* Largest top_k tried.
MaxTopK == 3
\* Most entities entered into the per-entity map when the reduction is
\* exercised on its own.
MaxEntities == 3
\* Longest address text classified.
MaxAddrLen == 3
\* Longest file scanned line by line.
MaxLines == 3
\* Versions of the summary file the dashboard sees.
MaxVersions == 2
\* Request threads of the dashboard inside get_summary at once.
MaxThreads == 2

\* summarize_stats(stats, top_k=5): the default the analyzers use.
TOP_K == 5

None == <<>>
Some(x) == <<x>>

\* The value a local name is bound to: the element of a one-element set.
Only(S) == CHOOSE x \in S : TRUE

\* ----------------------------------------------------------------- text
\* A string is a sequence of one-character strings.
DigitChars == <<"0", "1", "2", "3", "4", "5", "6", "7", "8", "9">>

IsDigit(ch) == \E i \in 1..10 : DigitChars[i] = ch

DigitVal(ch) == (CHOOSE i \in 1..10 : DigitChars[i] = ch) - 1

AllDigits(s) == s # <<>> /\ \A i \in DOMAIN s : IsDigit(s[i])

\* The positions of the dots of s.
DotsOf(s) == {i \in DOMAIN s : s[i] = "."}

\* The position of the k-th dot of s; 0 stands before the text and the
\* position after the last dot's component stands for the end.
Cut(s, k) ==
    IF k = 0 THEN 0
    ELSE IF k > Cardinality(DotsOf(s)) THEN Len(s) + 1
    ELSE CHOOSE i \in DotsOf(s) :
             Cardinality({j \in DotsOf(s) : j <= i}) = k

\* str.split("."): the components between the dots.
SplitDots(s) ==
    [k \in 1..(Cardinality(DotsOf(s)) + 1) |->
        SubSeq(s, Cut(s, k - 1) + 1, Cut(s, k) - 1)]

\* str.split(".")[0]: the text before the first dot (all of it if none).
LeadingComponent(s) == SubSeq(s, 1, Cut(s, 1) - 1)

\* The value of the first n digits of s.
RECURSIVE DigitsValueUpTo(_, _)
DigitsValueUpTo(s, n) ==
    IF n = 0 THEN 0
    ELSE 10 * DigitsValueUpTo(s, n - 1) + DigitVal(s[n])

DigitsValue(s) == DigitsValueUpTo(s, Len(s))

\* int(s) on text without blanks or underscores: an optional sign and one
\* or more decimal digits; None stands for ValueError.
py_int(s) ==
    IF s # <<>> /\ Head(s) \in {"+", "-"}
    THEN IF ~AllDigits(Tail(s)) THEN None
         ELSE IF Head(s) = "-" THEN Some(0 - DigitsValue(Tail(s)))
         ELSE Some(DigitsValue(Tail(s)))
    ELSE IF ~AllDigits(s) THEN None
    ELSE Some(DigitsValue(s))

\* ------------------------------------------------------------ input lines
\* A raw line, by the parts LOG_PATTERN looks at: the address, the hour
\* field of the timestamp, the method token, the path, the digits of the
\* status field, and the size.
Addr10 == <<"1", "0", ".", "0", ".", "0", ".", "1">>
Addr60 == <<"6", "0", ".", "0", ".", "0", ".", "1">>
Addr120 == <<"1", "2", "0", ".", "0", ".", "0", ".", "1">>
Addr200 == <<"2", "0", "0", ".", "0", ".", "0", ".", "1">>

GoodLine1 == [ip |-> Addr10, hour |-> 1, method |-> "GET", path |-> "/a",
              status |-> <<2, 0, 0>>, size |-> 5]
GoodLine2 == [ip |-> Addr60, hour |-> 2, method |-> "POST", path |-> "/b",
              status |-> <<4, 0, 4>>, size |-> 7]
GoodLine3 == [ip |-> Addr120, hour |-> 2, method |-> "GET", path |-> "/a",
              status |-> <<5, 0, 0>>, size |-> 0]
GoodLine4 == [ip |-> Addr200, hour |-> 1, method |-> "GET", path |-> "/b",
              status |-> <<3, 9, 9>>, size |-> 1]
\* a status field of two digits: the structural match fails
BadStatusLine == [ip |-> Addr10, hour |-> 1, method |-> "GET", path |-> "/a",
                  status |-> <<2, 0>>, size |-> 5]
\* hour 24: the structural match succeeds, strptime raises ValueError
BadTimeLine == [ip |-> Addr60, hour |-> 24, method |-> "GET", path |-> "/b",
                status |-> <<2, 0, 0>>, size |-> 3]
\* a lower-case method token: [A-Z]+ does not match
BadMethodLine == [ip |-> Addr60, hour |-> 3, method |-> "get", path |-> "/b",
                  status |-> <<2, 0, 0>>, size |-> 3]

\* a status field of three digits outside 100..599
Status999Line == [ip |-> Addr10, hour |-> 1, method |-> "GET", path |-> "/a",
                  status |-> <<9, 9, 9>>, size |-> 2]

UpperMethods == {"GET", "POST", "PUT", "DELETE", "HEAD"}

RECURSIVE DigitsToInt(_)
DigitsToInt(ds) ==
    IF ds = <<>> THEN 0
    ELSE 10 * DigitsToInt(SubSeq(ds, 1, Len(ds) - 1)) + ds[Len(ds)]

\* LOG_PATTERN.match: \d+\.\d+\.\d+\.\d+ for the address, \d{3} for the
\* status, [A-Z]+ for the method.
LOG_PATTERN(line) ==
    /\ \E parts \in {SplitDots(line.ip)} :
           /\ Len(parts) = 4
           /\ \A i \in 1..4 : AllDigits(parts[i])
    /\ Len(line.status) = 3
    /\ line.method \in UpperMethods

\* datetime.strptime(time_str, "%d/%b/%Y:%H:%M:%S %z"): %H accepts 00..23.
strptime_ok(line) == line.hour \in 0..23

\* parse_log_line without the try/except around strptime: the timestamp
\* is not validated.
parse_log_line_no_strptime(line) ==
    IF ~LOG_PATTERN(line) THEN None
    ELSE Some([ip |-> line.ip, dt |-> [hour |-> line.hour],
               method |-> line.method, path |-> line.path,
               status |-> DigitsToInt(line.status), size |-> line.size])

parse_log_line(line) ==
    IF ~LOG_PATTERN(line) THEN None
    ELSE IF ~strptime_ok(line) THEN None
    ELSE Some([ip |-> line.ip, dt |-> [hour |-> line.hour],
               method |-> line.method, path |-> line.path,
               status |-> DigitsToInt(line.status), size |-> line.size])

\* ip_to_region with the first range starting at 0.
ip_to_region_from_zero(ip) ==
    Only({IF first_octet = None THEN "Other"
          ELSE IF 0 <= first_octet[1] /\ first_octet[1] <= 49
          THEN "North America"
          ELSE IF 50 <= first_octet[1] /\ first_octet[1] <= 99 THEN "Europe"
          ELSE IF 100 <= first_octet[1] /\ first_octet[1] <= 149 THEN "Asia"
          ELSE IF 150 <= first_octet[1] /\ first_octet[1] <= 199 THEN "Africa"
          ELSE "Other" :
          first_octet \in {py_int(lead) : lead \in {LeadingComponent(ip)}}})

ip_to_region(ip) ==
    Only({IF first_octet = None THEN "Other"
          ELSE IF 1 <= first_octet[1] /\ first_octet[1] <= 49
          THEN "North America"
          ELSE IF 50 <= first_octet[1] /\ first_octet[1] <= 99 THEN "Europe"
          ELSE IF 100 <= first_octet[1] /\ first_octet[1] <= 149 THEN "Asia"
          ELSE IF 150 <= first_octet[1] /\ first_octet[1] <= 199 THEN "Africa"
          ELSE "Other" :
          first_octet \in {py_int(lead) : lead \in {LeadingComponent(ip)}}})

\* ---------------------------------------------------------------- Counter
CounterGet(c, k) ==
    IF \E i \in DOMAIN c : c[i][1] = k
    THEN (c[CHOOSE i \in DOMAIN c : c[i][1] = k])[2]
    ELSE 0

\* c[k] = n + c.get(k, 0): an existing key keeps its place, a new key is
\* inserted last.
CounterAdd(c, k, n) ==
    IF \E i \in DOMAIN c : c[i][1] = k
    THEN [i \in DOMAIN c |-> IF c[i][1] = k THEN <<k, c[i][2] + n>> ELSE c[i]]
    ELSE Append(c, <<k, n>>)

\* c[k] += 1
CounterInc(c, k) == CounterAdd(c, k, 1)

\* Counter.update(mapping): adds the counts of `inc`, in the order of `inc`.
RECURSIVE CounterUpdate(_, _)
CounterUpdate(c, inc) ==
    IF inc = <<>> THEN c
    ELSE Only({CounterUpdate(d, Tail(inc)) :
                  d \in {CounterAdd(c, Head(inc)[1], Head(inc)[2])}})

\* The first item, in insertion order, whose count is maximal.
FirstMax(c) ==
    CHOOSE i \in DOMAIN c :
        /\ \A j \in DOMAIN c : c[j][2] <= c[i][2]
        /\ \A j \in DOMAIN c : j < i => c[j][2] < c[i][2]

RemoveAt(c, i) == SubSeq(c, 1, i - 1) \o SubSeq(c, i + 1, Len(c))

\* most_common as list(items)[:n]: the first n items, unsorted.
most_common_unsorted(c, n) ==
    IF n <= 0 THEN <<>> ELSE SubSeq(c, 1, IF n <= Len(c) THEN n ELSE Len(c))

\* most_common() without its argument: every item, sorted.
RECURSIVE SortedItems(_)
SortedItems(c) ==
    IF c = <<>> THEN <<>>
    ELSE <<c[FirstMax(c)]>> \o SortedItems(RemoveAt(c, FirstMax(c)))

most_common_all(c, n) == SortedItems(c)

\* Counter.most_common(n) = heapq.nlargest(n, items, key=count): the n items
\* of largest count, in decreasing count, equal counts in insertion order.
RECURSIVE most_common(_, _)
most_common(c, n) ==
    IF n <= 0 \/ c = <<>> THEN <<>>
    ELSE <<c[FirstMax(c)]>> \o most_common(RemoveAt(c, FirstMax(c)), n - 1)

\* A Counter as a key-to-count map (the order of insertion forgotten).
AsMap(c) == {c[i] : i \in DOMAIN c}

\* ------------------------------------------------------------ accumulator
new_stats ==
    [requests |-> 0, bytes |-> 0, status |-> <<>>, paths |-> <<>>,
     methods |-> <<>>, regions |-> <<>>, hours |-> <<>>, errors |-> 0]

\* update_stats with `=` in place of `+=` on bytes.
update_stats_bytes_assign(stats, record) ==
    [requests |-> stats.requests + 1,
     bytes    |-> record.size,
     status   |-> CounterInc(stats.status, record.status),
     paths    |-> CounterInc(stats.paths, record.path),
     methods  |-> CounterInc(stats.methods, record.method),
     regions  |-> CounterInc(stats.regions, ip_to_region(record.ip)),
     hours    |-> CounterInc(stats.hours, record.dt.hour),
     errors   |-> IF record.status >= 400 THEN stats.errors + 1
                  ELSE stats.errors]

\* update_stats counting only server errors (status >= 500).
update_stats_server_errors(stats, record) ==
    [requests |-> stats.requests + 1,
     bytes    |-> stats.bytes + record.size,
     status   |-> CounterInc(stats.status, record.status),
     paths    |-> CounterInc(stats.paths, record.path),
     methods  |-> CounterInc(stats.methods, record.method),
     regions  |-> CounterInc(stats.regions, ip_to_region(record.ip)),
     hours    |-> CounterInc(stats.hours, record.dt.hour),
     errors   |-> IF record.status >= 500 THEN stats.errors + 1
                  ELSE stats.errors]

\* update_stats with `record["status"] > 400`: a 400 is not an error.
update_stats_above_400(stats, record) ==
    [requests |-> stats.requests + 1,
     bytes    |-> stats.bytes + record.size,
     status   |-> CounterInc(stats.status, record.status),
     paths    |-> CounterInc(stats.paths, record.path),
     methods  |-> CounterInc(stats.methods, record.method),
     regions  |-> CounterInc(stats.regions, ip_to_region(record.ip)),
     hours    |-> CounterInc(stats.hours, record.dt.hour),
     errors   |-> IF record.status > 400 THEN stats.errors + 1
                  ELSE stats.errors]

update_stats(stats, record) ==
    [requests |-> stats.requests + 1,
     bytes    |-> stats.bytes + record.size,
     status   |-> CounterInc(stats.status, record.status),
     paths    |-> CounterInc(stats.paths, record.path),
     methods  |-> CounterInc(stats.methods, record.method),
     regions  |-> CounterInc(stats.regions, ip_to_region(record.ip)),
     hours    |-> CounterInc(stats.hours, record.dt.hour),
     errors   |-> IF record.status >= 400 THEN stats.errors + 1
                  ELSE stats.errors]

\* merge_stats with dict.update in place of Counter.update: a key of
\* `incoming` replaces the count of `target` instead of adding to it.
RECURSIVE DictUpdate(_, _)
DictUpdate(c, inc) ==
    IF inc = <<>> THEN c
    ELSE DictUpdate(
             IF \E i \in DOMAIN c : c[i][1] = Head(inc)[1]
             THEN [i \in DOMAIN c |->
                      IF c[i][1] = Head(inc)[1] THEN Head(inc) ELSE c[i]]
             ELSE Append(c, Head(inc)),
             Tail(inc))

merge_stats_dict_update(target, incoming) ==
    [requests |-> target.requests + incoming.requests,
     bytes    |-> target.bytes + incoming.bytes,
     errors   |-> target.errors + incoming.errors,
     status   |-> DictUpdate(target.status, incoming.status),
     paths    |-> DictUpdate(target.paths, incoming.paths),
     methods  |-> DictUpdate(target.methods, incoming.methods),
     regions  |-> DictUpdate(target.regions, incoming.regions),
     hours    |-> DictUpdate(target.hours, incoming.hours)]

\* merge_stats with `=` in place of `+=` on the scalar fields.
merge_stats_assign(target, incoming) ==
    [requests |-> incoming.requests,
     bytes    |-> incoming.bytes,
     errors   |-> incoming.errors,
     status   |-> CounterUpdate(target.status, incoming.status),
     paths    |-> CounterUpdate(target.paths, incoming.paths),
     methods  |-> CounterUpdate(target.methods, incoming.methods),
     regions  |-> CounterUpdate(target.regions, incoming.regions),
     hours    |-> CounterUpdate(target.hours, incoming.hours)]

\* The value of `target` after merge_stats(target, incoming).
merge_stats(target, incoming) ==
    [requests |-> target.requests + incoming.requests,
     bytes    |-> target.bytes + incoming.bytes,
     errors   |-> target.errors + incoming.errors,
     status   |-> CounterUpdate(target.status, incoming.status),
     paths    |-> CounterUpdate(target.paths, incoming.paths),
     methods  |-> CounterUpdate(target.methods, incoming.methods),
     regions  |-> CounterUpdate(target.regions, incoming.regions),
     hours    |-> CounterUpdate(target.hours, incoming.hours)]

RECURSIVE GCD(_, _)
GCD(a, b) == IF b = 0 THEN a ELSE GCD(b, a % b)

\* errors / (total - errors): errors per successful request.
Ratio_OverSuccesses(errors, total) ==
    IF total - errors = 0 \/ errors = 0 THEN [num |-> 0, den |-> 1]
    ELSE [num |-> errors \div GCD(errors, total - errors),
          den |-> (total - errors) \div GCD(errors, total - errors)]

\* The quotient errors / total as a fraction in lowest terms; 0.0 is 0/1.
Ratio(errors, total) ==
    IF total = 0 \/ errors = 0 THEN [num |-> 0, den |-> 1]
    ELSE [num |-> errors \div GCD(errors, total),
          den |-> total \div GCD(errors, total)]

RatioGt(a, b) == a.num * b.den > b.num * a.den

summarize_stats(stats, top_k) ==
    [total_requests      |-> stats.requests,
     total_bytes         |-> stats.bytes,
     error_rate          |-> Ratio(stats.errors, stats.requests),
     status_breakdown    |-> stats.status,
     method_breakdown    |-> stats.methods,
     region_distribution |-> stats.regions,
     hour_histogram      |-> stats.hours,
     peak_hour           |-> IF stats.hours # <<>>
                             THEN Some(most_common(stats.hours, 1)[1][1])
                             ELSE None,
     top_paths           |-> most_common(stats.paths, top_k)]

\* Equality of two accumulators as Python compares them: scalars, and the
\* histograms as key-to-count maps.
StatsEq(a, b) ==
    /\ a.requests = b.requests
    /\ a.bytes = b.bytes
    /\ a.errors = b.errors
    /\ AsMap(a.status) = AsMap(b.status)
    /\ AsMap(a.paths) = AsMap(b.paths)
    /\ AsMap(a.methods) = AsMap(b.methods)
    /\ AsMap(a.regions) = AsMap(b.regions)
    /\ AsMap(a.hours) = AsMap(b.hours)

\* Equality of two summaries as Python compares them: the breakdowns are
\* dicts (maps), top_paths is a list (ordered).
SummaryEq(s, t) ==
    /\ s.total_requests = t.total_requests
    /\ s.total_bytes = t.total_bytes
    /\ s.error_rate = t.error_rate
    /\ AsMap(s.status_breakdown) = AsMap(t.status_breakdown)
    /\ AsMap(s.method_breakdown) = AsMap(t.method_breakdown)
    /\ AsMap(s.region_distribution) = AsMap(t.region_distribution)
    /\ AsMap(s.hour_histogram) = AsMap(t.hour_histogram)
    /\ s.peak_hour = t.peak_hour
    /\ s.top_paths = t.top_paths

\* merged_stats = new_stats(); for ...: merge_stats(merged_stats, worker_stats)
RECURSIVE MergeFrom(_, _)
MergeFrom(target, accs) ==
    IF accs = <<>> THEN target
    ELSE Only({MergeFrom(t, Tail(accs)) :
                  t \in {merge_stats(target, Head(accs))}})

\* The merge loop over gathered[2:]: the first worker is skipped.
MergeAll_SkipFirst(accs) ==
    IF accs = <<>> THEN new_stats ELSE MergeFrom(new_stats, Tail(accs))

MergeAll(accs) == MergeFrom(new_stats, accs)

\* --------------------------------------------------------------- variables
VARIABLES
    \* accumulator algebra: a dataset split across three accumulators
    dataset,          \* the records absorbed so far, in order of arrival
    split,            \* split[i]: the accumulator record i was given to
    single,           \* one accumulator absorbing the whole dataset
    part,             \* part[k]: the accumulator of part k (A, B, C)
    merged,           \* None, or Some(merge of part[1], part[2], part[3])
    \* region classifier: one call
    address,          \* the text given to ip_to_region
    region,           \* None, or Some(what ip_to_region returned)
    \* batch protocol: inputs of the run
    logs,             \* args.logs: the roster, a sequence of paths
    worldSize,        \* comm.Get_size()
    disk,             \* path -> None (no such file) or Some(lines)
    prior,            \* the report file before the run
    \* batch protocol: state
    report,           \* the report file at args.output
    outdir,           \* whether the output directory exists
    plotfile,         \* whether a plot has been written
    pc,               \* pc[rank]
    pos,              \* pos[rank]: lines of its file a worker has consumed
    stats,            \* stats[rank]: a worker's local accumulator
    opened,           \* opened[rank]: roster positions whose file it opened
    sent,             \* sent[rank]: the worker's contribution to the gather
    gathered,         \* the list comm.gather returned at rank 0
    merged_stats,     \* rank 0
    server_summaries, \* rank 0: ordered dict, <<name, summary>> items
    payload,          \* rank 0: None or Some(report document)
    observed,         \* what the dashboard's last load_summary read
    \* accumulators as Python objects
    heap,             \* Counter object id -> its items
    objs,             \* accumulator name -> its dict: numbers and object ids
    \* dashboard: the summary cache shared by the request threads
    sfile,            \* the summary file: its version, mtime and state
    cache,            \* summary_cache: data and mtime
    thr,              \* thr[t]: where request thread t is in get_summary
    \* dashboard: one /api/raw request
    raw               \* its arguments, loop variables and results

extVars == <<heap, objs, sfile, cache, thr, raw>>
accVars == <<dataset, split, single, part, merged, address, region, extVars>>
runVars == <<logs, worldSize, disk, prior, report, outdir, plotfile, pc, pos,
             stats, opened, sent, gathered, merged_stats, server_summaries,
             payload, observed>>
vars == <<accVars, runVars>>

\* ------------------------------------------------- accumulator algebra
Records == {parse_log_line(l)[1] :
               l \in {GoodLine1, GoodLine2, GoodLine3, GoodLine4}}

Parts == {1, 2, 3}

\* The dashboard and object variables while another part is exercised.
ExtIdle ==
    /\ heap = <<>>
    /\ objs = <<>>
    /\ sfile = <<>>
    /\ cache = <<>>
    /\ thr = <<>>
    /\ raw = <<>>

AccInit ==
    /\ ExtIdle
    /\ dataset = <<>>
    /\ split = <<>>
    /\ single = new_stats
    /\ part = [k \in Parts |-> new_stats]
    /\ merged = None
    /\ address = <<>>
    /\ region = None

\* One more record of the dataset arrives; it goes to part k.
Absorb(record, k) ==
    /\ merged = None
    /\ Len(dataset) < MaxData
    /\ dataset' = Append(dataset, record)
    /\ split' = Append(split, k)
    /\ single' = update_stats(single, record)
    /\ part' = [part EXCEPT ![k] = update_stats(part[k], record)]
    /\ UNCHANGED <<merged, address, region, extVars>>

\* The parts are reduced in roster order.
MergeParts ==
    /\ merged = None
    /\ merged' = Some(MergeAll(<<part[1], part[2], part[3]>>))
    /\ UNCHANGED <<dataset, split, single, part, address, region, extVars>>

AccNext ==
    \/ \E record \in Records, k \in Parts : Absorb(record, k)
    \/ MergeParts

\* ------------------------------------------------------- batch protocol
\* A path, by the parts pathlib splits it into.
PathPool ==
    {[dir |-> "srv1", stem |-> "access", suffix |-> ".log"],
     [dir |-> "srv2", stem |-> "access", suffix |-> ".log"],
     [dir |-> "srv1", stem |-> "web", suffix |-> ".log"]}

\* Path(path).stem
Stem(path) == path.stem

\* The contents a log file may have.
Contents ==
    {<<GoodLine1, GoodLine2>>,
     <<BadStatusLine, GoodLine3>>}

Rosters == UNION {[1..n -> PathPool] : n \in 1..MaxFiles}

Ranks == 0..(worldSize - 1)
Workers == 1..(worldSize - 1)

\* The states of the report file: absent, or a document of which nothing
\* (empty), a proper prefix (partial) or all (complete) is on disk.
NoFile == [state |-> "absent", run |-> "none", doc |-> None]
PrevReport == [state |-> "complete", run |-> "previous", doc |-> None]

\* analyze_file(path): the accumulator of a whole file.
RECURSIVE analyze_lines(_, _)
analyze_lines(st, lines) ==
    IF lines = <<>> THEN st
    ELSE analyze_lines(
             IF parse_log_line(Head(lines)) = None THEN st
             ELSE update_stats(st, parse_log_line(Head(lines))[1]),
             Tail(lines))

analyze_file(path) == analyze_lines(new_stats, disk[path][1])

\* d[k] = v on an insertion-ordered dict of <<key, value>> items.
DictSet(d, k, v) ==
    IF \E i \in DOMAIN d : d[i][1] = k
    THEN [i \in DOMAIN d |-> IF d[i][1] = k THEN <<k, v>> ELSE d[i]]
    ELSE Append(d, <<k, v>>)

Min(a, b) == IF a <= b THEN a ELSE b

\* zip(a, reversed(b)): the contributions paired in reverse rank order.
Zip_Reversed(a, b) ==
    [i \in 1..Min(Len(a), Len(b)) |-> <<a[i], b[Len(b) + 1 - i]>>]

\* zip(a, b)
Zip(a, b) == [i \in 1..Min(Len(a), Len(b)) |-> <<a[i], b[i]>>]

\* The loop of derive_rankings over server_summaries.items().
RECURSIVE RankLoop(_, _, _)
RankLoop(items, busiest, highest_error) ==
    IF items = <<>>
    THEN [busiest_server |->
              IF busiest # None THEN Some(busiest[1][1]) ELSE None,
          highest_error_server |->
              IF highest_error # None THEN Some(highest_error[1][1]) ELSE None]
    ELSE LET name == Head(items)[1]
             total == Head(items)[2].total_requests
             error_rate == Head(items)[2].error_rate
         IN RankLoop(
                Tail(items),
                IF total # 0 /\ (busiest = None \/ total > busiest[1][2])
                THEN Some(<<name, total>>) ELSE busiest,
                IF total # 0 /\ (highest_error = None
                                 \/ RatioGt(error_rate, highest_error[1][2]))
                THEN Some(<<name, error_rate>>) ELSE highest_error)

\* Variants of the loop of derive_rankings: `>=` in place of `>` (the last
\* of the tied entities wins), and the highest-error test without its
\* `total and` guard.
RECURSIVE RankLoopWith(_, _, _, _, _)
RankLoopWith(items, busiest, highest_error, tiesLast, unguarded) ==
    IF items = <<>>
    THEN [busiest_server |->
              IF busiest # None THEN Some(busiest[1][1]) ELSE None,
          highest_error_server |->
              IF highest_error # None THEN Some(highest_error[1][1]) ELSE None]
    ELSE LET name == Head(items)[1]
             total == Head(items)[2].total_requests
             error_rate == Head(items)[2].error_rate
         IN RankLoopWith(
                Tail(items),
                IF total # 0 /\ (\/ busiest = None
                                 \/ total > busiest[1][2]
                                 \/ (tiesLast /\ total = busiest[1][2]))
                THEN Some(<<name, total>>) ELSE busiest,
                IF (unguarded \/ total # 0)
                   /\ (\/ highest_error = None
                       \/ RatioGt(error_rate, highest_error[1][2]))
                THEN Some(<<name, error_rate>>) ELSE highest_error,
                tiesLast, unguarded)

derive_rankings_ties_last(summaries) ==
    RankLoopWith(summaries, None, None, TRUE, FALSE)

derive_rankings_unguarded(summaries) ==
    RankLoopWith(summaries, None, None, FALSE, TRUE)

derive_rankings(summaries) == RankLoop(summaries, None, None)

\* for path, worker_stats in zip(args.logs, gathered[1:]): the summaries.
RECURSIVE SummariesLoop(_, _)
SummariesLoop(pairs, summaries) ==
    IF pairs = <<>> THEN summaries
    ELSE SummariesLoop(
             Tail(pairs),
             DictSet(summaries, Stem(Head(pairs)[1]),
                     summarize_stats(Head(pairs)[2], TOP_K)))

\* The worker_stats of the pairs, in order.
Seconds(pairs) == [i \in DOMAIN pairs |-> pairs[i][2]]

RunInit ==
    /\ logs \in Rosters
    /\ worldSize \in {Len(logs), Len(logs) + 1, Len(logs) + 2}
    /\ disk \in [PathPool -> {None} \cup {Some(c) : c \in Contents}]
    /\ \A p \in PathPool :
           (\A i \in DOMAIN logs : logs[i] # p) => disk[p] = None
    /\ prior \in {NoFile, PrevReport}
    /\ report = prior
    /\ outdir = (prior # NoFile)
    /\ plotfile = FALSE
    /\ pc = [r \in Ranks |-> "start"]
    /\ pos = [r \in Ranks |-> 0]
    /\ stats = [r \in Ranks |-> new_stats]
    /\ opened = [r \in Ranks |-> {}]
    /\ sent = [r \in Ranks |-> None]
    /\ gathered = None
    /\ merged_stats = new_stats
    /\ server_summaries = <<>>
    /\ payload = None
    /\ observed = prior

coordVars == <<gathered, merged_stats, server_summaries, payload>>
fileVars == <<report, outdir, plotfile>>
workerVars == <<pos, stats, opened, sent>>
inputVars == <<logs, worldSize, disk, prior>>

\* ---- worker ranks (main, lines 117-124)
\* log_index = rank: the head rank is not discounted.
LogIndex_NoOffset(rank) == rank

\* log_index = rank - 1
LogIndex(rank) == rank - 1

\* log_path = args.logs[log_index]; the existence check; open(path).
WorkerStart(r) ==
    /\ r \in Workers
    /\ pc[r] = "start"
    /\ IF LogIndex(r) >= Len(logs)
       THEN \* IndexError
            /\ pc' = [pc EXCEPT ![r] = "crashed"]
            /\ UNCHANGED <<stats, opened>>
       ELSE IF disk[logs[LogIndex(r) + 1]] = None
       THEN \* raise SystemExit("Log file not found")
            /\ pc' = [pc EXCEPT ![r] = "exited"]
            /\ UNCHANGED <<stats, opened>>
       ELSE /\ pc' = [pc EXCEPT ![r] = "reading"]
            /\ stats' = [stats EXCEPT ![r] = new_stats]
            /\ opened' = [opened EXCEPT ![r] = opened[r] \cup {LogIndex(r)}]
    /\ UNCHANGED <<pos, sent, inputVars, coordVars, fileVars, observed, accVars>>

\* One iteration of `for line in handle` in analyze_file.
WorkerReadLine(r) ==
    /\ r \in Workers
    /\ pc[r] = "reading"
    /\ LET lines == disk[logs[LogIndex(r) + 1]][1]
       IN /\ pos[r] < Len(lines)
          /\ \E record \in {parse_log_line(lines[pos[r] + 1])} :
                 stats' = [stats EXCEPT ![r] =
                              IF record = None THEN stats[r]
                              ELSE update_stats(stats[r], record[1])]
    /\ pos' = [pos EXCEPT ![r] = pos[r] + 1]
    /\ UNCHANGED <<pc, opened, sent, inputVars, coordVars, fileVars, observed,
                   accVars>>

\* Reading the file raises (an I/O or decoding error): the rank dies with
\* the exception.
WorkerReadError(r) ==
    /\ r \in Workers
    /\ pc[r] = "reading"
    /\ pc' = [pc EXCEPT ![r] = "crashed"]
    /\ UNCHANGED <<workerVars, inputVars, coordVars, fileVars, observed, accVars>>

\* analyze_file with `return stats` inside the loop body: the accumulator
\* is returned after the first line.
AtEOF_ReturnInLoop(r) ==
    \/ pos[r] >= 1
    \/ pos[r] = Len(disk[logs[r]][1])

\* `for line in handle` is exhausted.
AtEOF(r) == pos[r] = Len(disk[logs[LogIndex(r) + 1]][1])

\* End of file: analyze_file returns stats; comm.gather(stats, root=0).
WorkerGather(r) ==
    /\ r \in Workers
    /\ pc[r] = "reading"
    /\ AtEOF(r)
    /\ sent' = [sent EXCEPT ![r] = Some(stats[r])]
    /\ pc' = [pc EXCEPT ![r] = "done"]
    /\ UNCHANGED <<pos, stats, opened, inputVars, coordVars, fileVars, observed,
                   accVars>>

\* ---- rank 0 (main, lines 89-115)
\* ensure_world_size(args.logs, world_size)
CoordEnsure ==
    /\ pc[0] = "start"
    /\ pc' = [pc EXCEPT ![0] = IF worldSize - 1 # Len(logs) THEN "rejected"
                               ELSE "gather"]
    /\ UNCHANGED <<workerVars, inputVars, coordVars, fileVars, observed, accVars>>

\* A gather that also waits for a contribution of the root to itself.
GatherReady_AllRanks == \A r \in Ranks : sent[r] # None

\* comm.gather at the root returns once every rank has contributed.
GatherReady == \A r \in Workers : sent[r] # None

\* gathered = comm.gather(None, root=0): the contributions by rank.
CoordGather ==
    /\ pc[0] = "gather"
    /\ GatherReady
    /\ gathered' = [i \in 1..worldSize |->
                       IF i = 1 THEN None ELSE sent[i - 1][1]]
    /\ pc' = [pc EXCEPT ![0] = "reduce"]
    /\ UNCHANGED <<workerVars, inputVars, merged_stats, server_summaries,
                   payload, fileVars, observed, accVars>>

\* Lines 92-101: merge, per-server summaries, global summary, rankings.
CoordReduce ==
    /\ pc[0] = "reduce"
    /\ \E pairs \in {Zip(logs, Tail(gathered))} :
       \E global \in {MergeAll(Seconds(pairs))},
          servers \in {SummariesLoop(pairs, <<>>)} :
           /\ merged_stats' = global
           /\ server_summaries' = servers
           /\ payload' = Some([servers  |-> servers,
                               global   |-> summarize_stats(global, TOP_K),
                               rankings |-> derive_rankings(servers)])
    /\ pc' = [pc EXCEPT ![0] = "mkdir"]
    /\ UNCHANGED <<workerVars, inputVars, gathered, fileVars, observed, accVars>>

\* output_path.parent.mkdir(parents=True, exist_ok=True)
CoordMkdir ==
    /\ pc[0] = "mkdir"
    /\ outdir' = TRUE
    /\ pc' = [pc EXCEPT ![0] = "open"]
    /\ UNCHANGED <<workerVars, inputVars, coordVars, report, plotfile, observed,
                   accVars>>

\* open(output_path, "w"): the file is created or truncated to length 0.
CoordOpen ==
    /\ pc[0] = "open"
    /\ report' = [state |-> "empty", run |-> "this", doc |-> payload]
    /\ pc' = [pc EXCEPT ![0] = "dump"]
    /\ UNCHANGED <<workerVars, inputVars, coordVars, outdir, plotfile, observed,
                   accVars>>

\* json.dump writes the document piece by piece: a full buffer is flushed
\* to the file before the document is complete.
CoordFlush ==
    /\ pc[0] = "dump"
    /\ report.state = "empty"
    /\ report' = [report EXCEPT !.state = "partial"]
    /\ UNCHANGED <<pc, workerVars, inputVars, coordVars, outdir, plotfile,
                   observed, accVars>>

\* The end of the `with` block: the rest is flushed and the file closed.
CoordClose ==
    /\ pc[0] = "dump"
    /\ report' = [report EXCEPT !.state = "complete"]
    /\ pc' = [pc EXCEPT ![0] = "plot"]
    /\ UNCHANGED <<workerVars, inputVars, coordVars, outdir, plotfile, observed,
                   accVars>>

\* mkdir, open or a write raises OSError: rank 0 dies with the exception.
CoordIOError ==
    /\ pc[0] \in {"mkdir", "open", "dump"}
    /\ pc' = [pc EXCEPT ![0] = "ioerror"]
    /\ UNCHANGED <<workerVars, inputVars, coordVars, fileVars, observed, accVars>>

\* if args.plot: build_plot(...); the prints; return.
CoordFinish ==
    /\ pc[0] = "plot"
    /\ \E plotArg \in BOOLEAN : plotfile' = plotArg
    /\ pc' = [pc EXCEPT ![0] = "done"]
    /\ UNCHANGED <<workerVars, inputVars, coordVars, report, outdir, observed,
                   accVars>>

\* ---- the dashboard: load_summary reads the report file as it is now.
DashboardLoad ==
    /\ observed' = report
    /\ UNCHANGED <<pc, workerVars, inputVars, coordVars, fileVars, accVars>>

\* The steps of the program's own processes.
ProcNext ==
    \/ \E r \in Workers : WorkerStart(r)
    \/ \E r \in Workers : WorkerReadLine(r)
    \/ \E r \in Workers : WorkerGather(r)
    \/ CoordEnsure
    \/ CoordGather
    \/ CoordReduce
    \/ CoordMkdir
    \/ CoordOpen
    \/ CoordFlush
    \/ CoordClose
    \/ CoordFinish

\* Failures the environment may inject, and the concurrent reader.
EnvNext ==
    \/ \E r \in Workers : WorkerReadError(r)
    \/ CoordIOError
    \/ DashboardLoad

RunNext == ProcNext \/ EnvNext

\* The accumulator variables while the batch protocol runs, and the
\* protocol variables while the algebra is exercised.
RunIdle ==
    /\ logs = <<>>
    /\ worldSize = 0
    /\ disk = [p \in PathPool |-> None]
    /\ prior = NoFile
    /\ report = NoFile
    /\ outdir = FALSE
    /\ plotfile = FALSE
    /\ pc = <<>>
    /\ pos = <<>>
    /\ stats = <<>>
    /\ opened = <<>>
    /\ sent = <<>>
    /\ gathered = None
    /\ merged_stats = new_stats
    /\ server_summaries = <<>>
    /\ payload = None
    /\ observed = NoFile

Init == RunInit /\ AccInit
Next == RunNext
Spec == Init /\ [][Next]_vars

\* Every process that can take a step eventually takes one; injected
\* failures and dashboard reads are not forced.
FairSpec == Spec /\ WF_vars(ProcNext)

AccSpecInit == AccInit /\ RunIdle
AccStep == AccNext /\ UNCHANGED runVars
AccSpec == AccSpecInit /\ [][AccStep]_vars

\* ---- accumulators reachable by absorbs and merges in any order
\* update_stats(part[k], record)
ReachAbsorb(k, record) ==
    /\ part[k].requests < MaxRequests
    /\ part' = [part EXCEPT ![k] = update_stats(part[k], record)]
    /\ UNCHANGED <<dataset, split, single, merged, address, region, extVars>>

\* merge_stats(part[j], part[k]); j = k merges an accumulator into itself,
\* which doubles it as well.
ReachMerge(j, k) ==
    /\ part[j].requests + part[k].requests <= MaxRequests
    /\ part[k].requests > 0
    /\ part' = [part EXCEPT ![j] = merge_stats(part[j], part[k])]
    /\ UNCHANGED <<dataset, split, single, merged, address, region, extVars>>

\* part[k] = new_stats()
ReachReset(k) ==
    /\ part[k] # new_stats
    /\ part' = [part EXCEPT ![k] = new_stats]
    /\ UNCHANGED <<dataset, split, single, merged, address, region, extVars>>

Slots == {1, 2}

ReachNext ==
    \/ \E k \in Slots, record \in Records : ReachAbsorb(k, record)
    \/ \E j \in Slots, k \in Slots : ReachMerge(j, k)
    \/ \E k \in Slots : ReachReset(k)

ReachStep == ReachNext /\ UNCHANGED runVars
ReachSpec == AccSpecInit /\ [][ReachStep]_vars

\* ---- the reduction of rank 0 on any gathered list
ReducePaths ==
    PathPool \cup {[dir |-> "srv2", stem |-> "api", suffix |-> ".log"]}

\* The accumulators a worker may deliver: no request; one request, no error;
\* one request, an error; two requests, one error; two requests, two errors.
DeliveredStats ==
    {analyze_lines(new_stats, c) :
        c \in {<<BadTimeLine>>, <<GoodLine1>>, <<GoodLine2>>,
               <<GoodLine1, GoodLine2>>, <<GoodLine2, GoodLine3>>}}

ReduceInit ==
    /\ AccInit
    /\ RunIdle

\* One more file in the roster, and the accumulator its worker delivers.
Deliver(path, worker_stats) ==
    /\ payload = None
    /\ Len(logs) < MaxEntities
    /\ logs' = Append(logs, path)
    /\ gathered' = IF gathered = None THEN <<None, worker_stats>>
                   ELSE Append(gathered, worker_stats)
    /\ UNCHANGED <<worldSize, disk, prior, report, outdir, plotfile, pc, pos,
                   stats, opened, sent, merged_stats, server_summaries,
                   payload, observed, accVars>>

\* Lines 92-101 on the gathered list.
ReduceGathered ==
    /\ payload = None
    /\ logs # <<>>
    /\ LET pairs == Zip(logs, Tail(gathered))
           global == MergeAll(Seconds(pairs))
           servers == SummariesLoop(pairs, <<>>)
       IN /\ merged_stats' = global
          /\ server_summaries' = servers
          /\ payload' = Some([servers  |-> servers,
                              global   |-> summarize_stats(global, TOP_K),
                              rankings |-> derive_rankings(servers)])
    /\ UNCHANGED <<logs, gathered, worldSize, disk, prior, report, outdir,
                   plotfile, pc, pos, stats, opened, sent, observed, accVars>>

ReduceNext ==
    \/ \E path \in ReducePaths, worker_stats \in DeliveredStats :
           Deliver(path, worker_stats)
    \/ ReduceGathered

ReduceSpec == ReduceInit /\ [][ReduceNext]_vars

\* ---- ip_to_region on any short text
AddrChars == {"0", "1", "2", "4", "5", "9", ".", "-", "+", "x"}

ClassifyInit ==
    /\ AccInit
    /\ RunIdle

\* The caller builds the text one character at a time.
Type(ch) ==
    /\ region = None
    /\ Len(address) < MaxAddrLen
    /\ address' = Append(address, ch)
    /\ UNCHANGED <<dataset, split, single, part, merged, region, runVars, extVars>>

Classify ==
    /\ region = None
    /\ region' = Some(ip_to_region(address))
    /\ UNCHANGED <<dataset, split, single, part, merged, address, runVars, extVars>>

ClassifyNext ==
    \/ \E ch \in AddrChars : Type(ch)
    \/ Classify

ClassifySpec == ClassifyInit /\ [][ClassifyNext]_vars

\* ---- one worker scanning one file of any lines
ScanPath == [dir |-> "srv1", stem |-> "access", suffix |-> ".log"]

LinePool ==
    {GoodLine1, GoodLine2, GoodLine3, GoodLine4,
     BadStatusLine, BadTimeLine, BadMethodLine, Status999Line}

\* mpiexec -n 2 with one log file, which exists and is empty so far.
ScanInit ==
    /\ AccInit
    /\ logs = <<ScanPath>>
    /\ worldSize = 2
    /\ disk = [p \in PathPool |-> IF p = ScanPath THEN Some(<<>>) ELSE None]
    /\ prior = NoFile
    /\ report = NoFile
    /\ outdir = FALSE
    /\ plotfile = FALSE
    /\ pc = [r \in 0..1 |-> "start"]
    /\ pos = [r \in 0..1 |-> 0]
    /\ stats = [r \in 0..1 |-> new_stats]
    /\ opened = [r \in 0..1 |-> {}]
    /\ sent = [r \in 0..1 |-> None]
    /\ gathered = None
    /\ merged_stats = new_stats
    /\ server_summaries = <<>>
    /\ payload = None
    /\ observed = NoFile

\* The server appends a line to its log before the analysis starts.
FileAppend(line) ==
    /\ pc[1] = "start"
    /\ Len(disk[ScanPath][1]) < MaxLines
    /\ disk' = [disk EXCEPT ![ScanPath] = Some(Append(disk[ScanPath][1], line))]
    /\ UNCHANGED <<logs, worldSize, prior, pc, workerVars, coordVars, fileVars,
                   observed, accVars>>

ScanNext ==
    \/ \E line \in LinePool : FileAppend(line)
    \/ WorkerStart(1)
    \/ WorkerReadLine(1)
    \/ WorkerGather(1)

ScanSpec == ScanInit /\ [][ScanNext]_vars

\* ---- the batch on the success path: the worker count matches, every
\* roster file exists, and no read or write raises.
SuccessInit ==
    /\ RunInit
    /\ AccInit
    /\ worldSize - 1 = Len(logs)
    /\ \A i \in DOMAIN logs : disk[logs[i]] # None

SuccessSpec == SuccessInit /\ [][ProcNext]_vars /\ WF_vars(ProcNext)

\* ---- the serial analyzer (serial_analyzer.py) on the same roster
\* analyze_file(path) of serial_analyzer.py
serial_analyze_file(path) == analyze_lines(new_stats, disk[path][1])

\* for log in args.logs: stats = analyze_file(log); merge_stats(merged_stats, stats)
RECURSIVE SerialLoop(_, _)
SerialLoop(paths, target) ==
    IF paths = <<>> THEN target
    ELSE Only({SerialLoop(Tail(paths), m) :
                  m \in {merge_stats(target, serial_analyze_file(Head(paths)))}})

\* summary = summarize_stats(merged_stats), as main writes it.
serial_main == summarize_stats(SerialLoop(logs, new_stats), TOP_K)

\* ---- accumulators as objects: a dict of numbers and of Counter objects
\* The five histogram keys, in the order merge_stats visits them.
CounterKeys == <<"status", "paths", "methods", "regions", "hours">>

AccNames == {"target", "incoming"}

\* new_stats(): five fresh Counter objects, the first of them with id base.
new_stats_at(base) ==
    [requests |-> 0, bytes |-> 0, status |-> base, paths |-> base + 1,
     methods |-> base + 2, regions |-> base + 3, hours |-> base + 4,
     errors |-> 0]

\* The accumulator an object stands for: every Counter by its items.
View(name) ==
    [requests |-> objs[name].requests, bytes |-> objs[name].bytes,
     status |-> heap[objs[name].status], paths |-> heap[objs[name].paths],
     methods |-> heap[objs[name].methods],
     regions |-> heap[objs[name].regions],
     hours |-> heap[objs[name].hours], errors |-> objs[name].errors]

\* The Counter objects an accumulator refers to.
CountersOf(name) == {objs[name][CounterKeys[i]] : i \in DOMAIN CounterKeys}

\* update_stats on the heap: stats[key][...] += 1, key by key.
heap_update_stats(h, st, record) ==
    LET h1 == [h EXCEPT ![st.status] = CounterInc(@, record.status)]
        h2 == [h1 EXCEPT ![st.paths] = CounterInc(@, record.path)]
        h3 == [h2 EXCEPT ![st.methods] = CounterInc(@, record.method)]
        h4 == [h3 EXCEPT ![st.regions] = CounterInc(@, ip_to_region(record.ip))]
    IN [h4 EXCEPT ![st.hours] = CounterInc(@, record.dt.hour)]

\* for key in (...): target[key].update(incoming[key])
RECURSIVE MergeKeys(_, _, _, _)
MergeKeys(h, target, incoming, keys) ==
    IF keys = <<>> THEN h
    ELSE Only({MergeKeys(g, target, incoming, Tail(keys)) :
                  g \in {[h EXCEPT ![target[Head(keys)]] =
                             CounterUpdate(@, h[incoming[Head(keys)]])]}})

\* merge_stats that lets an empty Counter of the target adopt the
\* incoming Counter object instead of copying its counts.
RECURSIVE MergeKeysAdopt(_, _, _, _)
MergeKeysAdopt(h, target, incoming, keys) ==
    IF keys = <<>> THEN h
    ELSE Only({MergeKeysAdopt(g, target, incoming, Tail(keys)) :
                  g \in {IF h[target[Head(keys)]] = <<>> THEN h
                         ELSE [h EXCEPT ![target[Head(keys)]] =
                                  CounterUpdate(@, h[incoming[Head(keys)]])]}})

heap_merge_stats_adopt(h, target, incoming) ==
    [heap |-> MergeKeysAdopt(h, target, incoming, CounterKeys),
     target |-> [k \in DOMAIN target |->
                    IF k \in {"requests", "bytes", "errors"}
                    THEN target[k] + incoming[k]
                    ELSE IF h[target[k]] = <<>> THEN incoming[k]
                    ELSE target[k]]]

\* merge_stats on the heap: the new heap and the target dict.
heap_merge_stats(h, target, incoming) ==
    [heap |-> MergeKeys(h, target, incoming, CounterKeys),
     target |-> [target EXCEPT !.requests = @ + incoming.requests,
                               !.bytes = @ + incoming.bytes,
                               !.errors = @ + incoming.errors]]

\* Two accumulators made by new_stats().
HeapInit ==
    /\ dataset = <<>>
    /\ split = <<>>
    /\ single = new_stats
    /\ part = [k \in Parts |-> new_stats]
    /\ merged = None
    /\ address = <<>>
    /\ region = None
    /\ RunIdle
    /\ heap = [id \in 1..10 |-> <<>>]
    /\ objs = [name \in AccNames |->
                  IF name = "target" THEN new_stats_at(1) ELSE new_stats_at(6)]
    /\ sfile = <<>>
    /\ cache = <<>>
    /\ thr = <<>>
    /\ raw = <<>>

\* update_stats(stats, record) on the accumulator called name
HeapUpdate(name, record) ==
    /\ objs[name].requests < MaxRequests
    /\ heap' = heap_update_stats(heap, objs[name], record)
    /\ objs' = [objs EXCEPT ![name] =
                   [@ EXCEPT !.requests = @ + 1,
                             !.bytes = @ + record.size,
                             !.errors = IF record.status >= 400 THEN @ + 1
                                        ELSE @]]
    /\ UNCHANGED <<sfile, cache, thr, raw>>

\* merge_stats(target, incoming), two distinct accumulators
HeapMerge(t, i) ==
    /\ t # i
    /\ objs[i].requests > 0
    /\ objs[t].requests + objs[i].requests <= MaxRequests
    /\ \E result \in {heap_merge_stats(heap, objs[t], objs[i])} :
           /\ heap' = result.heap
           /\ objs' = [objs EXCEPT ![t] = result.target]
    /\ UNCHANGED <<sfile, cache, thr, raw>>

HeapNext ==
    \/ \E name \in AccNames, record \in Records : HeapUpdate(name, record)
    \/ \E t \in AccNames, i \in AccNames : HeapMerge(t, i)

HeapStep ==
    /\ HeapNext
    /\ UNCHANGED <<dataset, split, single, part, merged, address, region,
                   runVars>>

HeapSpec == HeapInit /\ [][HeapStep]_vars

\* ---- the dashboard's summary cache (dashboard.py, get_summary) under
\* app.run(threaded=True)
Threads == 1..MaxThreads

\* st_mtime of the file once version v is written in full: every
\* replacement touches the file twice, at the truncation and at the end.
MtimeOf(v) == 2 * v - 1

IdleThread == [pc |-> "idle", mtime |-> 0, data |-> None]

\* The first report is on disk; no request has been served.
DashInit ==
    /\ dataset = <<>>
    /\ split = <<>>
    /\ single = new_stats
    /\ part = [k \in Parts |-> new_stats]
    /\ merged = None
    /\ address = <<>>
    /\ region = None
    /\ RunIdle
    /\ heap = <<>>
    /\ objs = <<>>
    /\ sfile = [version |-> 1, mtime |-> MtimeOf(1), content |-> Some(1)]
    /\ cache = [data |-> None, mtime |-> 0]
    /\ thr = [t \in Threads |-> IdleThread]
    /\ raw = <<>>

\* The analyzer opens the report for writing: the file is truncated, and
\* until the write ends its content is not a JSON document.
ReplaceStart ==
    /\ sfile.content # None
    /\ sfile.version < MaxVersions
    /\ sfile' = [version |-> sfile.version + 1, mtime |-> sfile.mtime + 1,
                 content |-> None]
    /\ UNCHANGED <<cache, thr>>

\* The analyzer's write ends: the new version is on disk in full.
ReplaceEnd ==
    /\ sfile.content = None
    /\ sfile' = [sfile EXCEPT !.mtime = MtimeOf(sfile.version),
                              !.content = Some(sfile.version)]
    /\ UNCHANGED <<cache, thr>>

\* summary_path.exists(); mtime = summary_path.stat().st_mtime
GetStat(t) ==
    /\ thr[t].pc = "idle"
    /\ thr' = [thr EXCEPT ![t] = [pc |-> "test", mtime |-> sfile.mtime,
                                  data |-> None]]
    /\ UNCHANGED <<sfile, cache>>

\* if summary_cache["data"] is None or mtime > summary_cache["mtime"]
GetTest(t) ==
    /\ thr[t].pc = "test"
    /\ thr' = [thr EXCEPT ![t] =
                  IF cache.data = None \/ thr[t].mtime > cache.mtime
                  THEN [@ EXCEPT !.pc = "load"]
                  ELSE IdleThread]
    /\ UNCHANGED <<sfile, cache>>

\* load_summary(summary_path): json.load of the file as it is now; a file
\* in the middle of a write raises, and the request ends with the
\* exception before anything is assigned.
GetLoad(t) ==
    /\ thr[t].pc = "load"
    /\ thr' = [thr EXCEPT ![t] =
                  IF sfile.content = None THEN IdleThread
                  ELSE [@ EXCEPT !.pc = "data", !.data = sfile.content]]
    /\ UNCHANGED <<sfile, cache>>

\* summary_cache["data"] = <the loaded document>
GetStoreData(t) ==
    /\ thr[t].pc = "data"
    /\ cache' = [cache EXCEPT !.data = thr[t].data]
    /\ thr' = [thr EXCEPT ![t].pc = "mtime"]
    /\ UNCHANGED sfile

\* summary_cache["mtime"] = mtime; return summary_cache["data"]
GetStoreMtime(t) ==
    /\ thr[t].pc = "mtime"
    /\ cache' = [cache EXCEPT !.mtime = thr[t].mtime]
    /\ thr' = [thr EXCEPT ![t] = IdleThread]
    /\ UNCHANGED sfile

DashNext ==
    \/ ReplaceStart
    \/ ReplaceEnd
    \/ \E t \in Threads : GetStat(t)
    \/ \E t \in Threads : GetTest(t)
    \/ \E t \in Threads : GetLoad(t)
    \/ \E t \in Threads : GetStoreData(t)
    \/ \E t \in Threads : GetStoreMtime(t)

DashStep ==
    /\ DashNext
    /\ UNCHANGED <<dataset, split, single, part, merged, address, region,
                   runVars, heap, objs, raw>>

DashSpec == DashInit /\ [][DashStep]_vars

\* ---- the dashboard's /api/raw handler (dashboard.py, raw_logs)
\* min(int(limit), 2000)
RAW_LIMIT_CAP == 2000

RawLines == {GoodLine1, GoodLine2, GoodLine3, GoodLine4, BadTimeLine}

\* The query arguments tried; None is an argument left out.
RawOffsets == 0..2
RawLimits == {0, 1, 2, RAW_LIMIT_CAP + 1}
RawStatusClasses == {None, Some(<<4>>)}
RawMethods == {None, Some("GET")}
RawRegions == {None, Some("Europe")}
RawPathSubs == {None, Some(<<"b">>)}

\* str(n) for a status, as its decimal digits.
StatusDigits(n) ==
    IF n >= 100 THEN <<n \div 100, (n \div 10) % 10, n % 10>>
    ELSE IF n >= 10 THEN <<n \div 10, n % 10>>
    ELSE <<n>>

\* text.startswith(prefix)
StartsWith(text, prefix) ==
    Len(prefix) <= Len(text) /\ SubSeq(text, 1, Len(prefix)) = prefix

\* The characters of a path.
PathText(path) == IF path = "/a" THEN <<"/", "a">> ELSE <<"/", "b">>

\* sub in text
Contains(text, sub) ==
    \E i \in 1..(Len(text) + 1) :
        i + Len(sub) - 1 <= Len(text) /\ SubSeq(text, i, i + Len(sub) - 1) = sub

\* The four `continue` tests of the loop body: TRUE when none applies.
PassesFilters(record, req) ==
    /\ req.status_class = None
           \/ StartsWith(StatusDigits(record.status), req.status_class[1])
    /\ req.method = None \/ record.method = req.method[1]
    /\ req.region = None \/ req.region[1] = ip_to_region(record.ip)
    /\ req.path_sub = None \/ Contains(PathText(record.path), req.path_sub[1])

RawItem(record) ==
    [ip |-> record.ip, time |-> record.dt, method |-> record.method,
     path |-> record.path, status |-> record.status, bytes |-> record.size,
     region |-> ip_to_region(record.ip)]

\* for line in handle: ... with the loop variables skipped and results;
\* `break` once len(results) >= limit after an append.
RECURSIVE RawLoop(_, _, _, _, _)
RawLoop(lines, skipped, results, req, limit) ==
    IF lines = <<>> THEN results
    ELSE LET record == parse_log_line(Head(lines))
         IN IF record = None
            THEN RawLoop(Tail(lines), skipped, results, req, limit)
            ELSE IF ~PassesFilters(record[1], req)
            THEN RawLoop(Tail(lines), skipped, results, req, limit)
            ELSE IF skipped < req.offset
            THEN RawLoop(Tail(lines), skipped + 1, results, req, limit)
            ELSE IF Len(results) + 1 >= limit
            THEN Append(results, RawItem(record[1]))
            ELSE RawLoop(Tail(lines), skipped,
                         Append(results, RawItem(record[1])), req, limit)

\* The log of the named server exists and is empty; no request yet.
RawInit ==
    /\ dataset = <<>>
    /\ split = <<>>
    /\ single = new_stats
    /\ part = [k \in Parts |-> new_stats]
    /\ merged = None
    /\ address = <<>>
    /\ region = None
    /\ RunIdle
    /\ heap = <<>>
    /\ objs = <<>>
    /\ sfile = <<>>
    /\ cache = <<>>
    /\ thr = <<>>
    /\ raw = [lines |-> <<>>, request |-> None, response |-> None]

\* The server appends a line to its log.
RawFileAppend(line) ==
    /\ raw.request = None
    /\ Len(raw.lines) < MaxLines
    /\ raw' = [raw EXCEPT !.lines = Append(@, line)]

\* GET /api/raw?server=...&offset=...&limit=...&...
raw_logs(req) ==
    /\ raw.request = None
    /\ LET limit == IF req.limit <= RAW_LIMIT_CAP THEN req.limit
                    ELSE RAW_LIMIT_CAP
           results == RawLoop(raw.lines, 0, <<>>, req, limit)
       IN raw' = [raw EXCEPT !.request = Some(req),
                             !.response = Some([items |-> results,
                                                count |-> Len(results),
                                                offset |-> req.offset,
                                                limit |-> limit])]

RawNext ==
    \/ \E line \in RawLines : RawFileAppend(line)
    \/ \E offset \in RawOffsets, limit \in RawLimits,
          status_class \in RawStatusClasses, method \in RawMethods,
          rg \in RawRegions, path_sub \in RawPathSubs :
           raw_logs([offset |-> offset, limit |-> limit,
                     status_class |-> status_class, method |-> method,
                     region |-> rg, path_sub |-> path_sub])

RawStep ==
    /\ RawNext
    /\ UNCHANGED <<dataset, split, single, part, merged, address, region,
                   runVars, heap, objs, sfile, cache, thr>>

RawSpec == RawInit /\ [][RawStep]_vars

\* =================================================================== claims

\* C1: partition invariance of the summary.  Once the parts are merged, the
\* summary of the merge equals the summary of the single accumulator that
\* absorbed the whole dataset, in every field, peak_hour and the order of
\* top_paths included.
C1_PartitionInvariance ==
    merged # None =>
        SummaryEq(summarize_stats(merged[1], TOP_K),
                  summarize_stats(single, TOP_K))

PartA == part[1]
PartB == part[2]
PartC == part[3]

\* C2: merge is commutative and associative.  For the accumulators A, B, C,
\* merge(merge(A,B),C), merge(A,merge(B,C)) and merge(B,merge(A,C)) have
\* equal scalars and equal histograms as key-to-count maps.
C2_MergeCommAssoc ==
    /\ StatsEq(merge_stats(merge_stats(PartA, PartB), PartC),
               merge_stats(PartA, merge_stats(PartB, PartC)))
    /\ StatsEq(merge_stats(merge_stats(PartA, PartB), PartC),
               merge_stats(PartB, merge_stats(PartA, PartC)))

\* Three non-empty accumulators whose two merge orders insert the hours in
\* different orders, and two of which share a key.
C2_Witness ==
    /\ PartA.requests > 0
    /\ PartB.requests > 0
    /\ PartC.requests > 0
    /\ merge_stats(merge_stats(PartA, PartB), PartC).hours
           # merge_stats(PartB, merge_stats(PartA, PartC)).hours
    /\ \E i \in DOMAIN PartA.paths :
           CounterGet(PartC.paths, PartA.paths[i][1]) > 0

\* C3: new_stats() is the identity of merge.  Merging the empty accumulator
\* into A, or A into the empty accumulator, gives A in every scalar and
\* every histogram.
C3_EmptyIdentity ==
    \A k \in Parts :
        /\ StatsEq(merge_stats(part[k], new_stats), part[k])
        /\ StatsEq(merge_stats(new_stats, part[k]), part[k])

\* An accumulator with several requests, bytes and an error.
C3_Witness ==
    /\ PartA.requests >= 2
    /\ PartA.bytes > 0
    /\ PartA.errors > 0
    /\ Len(PartA.hours) >= 2

\* ---- the batch protocol
\* Rank 0 has returned from comm.gather.
PastGather ==
    pc[0] \in {"reduce", "mkdir", "open", "dump", "plot", "done", "ioerror"}

\* The accumulator rank 0 pairs with roster position k (1-based).
PairedStats(k) == Zip(logs, Tail(gathered))[k][2]

\* C4: barrier.  Until every worker has delivered its accumulator, rank 0
\* has merged, summarized, ranked and written nothing; and once it is past
\* the gather, every worker is done and the accumulator gathered from it is
\* its final one, the accumulator of its whole file.
C4_Barrier ==
    /\ ~PastGather =>
           /\ gathered = None
           /\ merged_stats = new_stats
           /\ server_summaries = <<>>
           /\ payload = None
           /\ report = prior
    /\ PastGather =>
           \A r \in Workers :
               /\ pc[r] = "done"
               /\ sent[r] = Some(stats[r])
               /\ gathered[r + 1] = stats[r]
               /\ stats[r] = analyze_file(logs[r])

\* Two workers delivered different accumulators and the report is written.
C4_Witness ==
    /\ pc[0] = "done"
    /\ worldSize = 3
    /\ gathered[2] # gathered[3]
    /\ gathered[2].requests > 0
    /\ report.state = "complete"
    /\ report.run = "this"

\* C5: a mismatch of worker count and file count is rejected before any
\* file is touched: no rank opens or reads a log file, and neither the
\* report, the output directory nor a plot is written.
C5_MismatchNoSideEffects ==
    worldSize - 1 # Len(logs) =>
        /\ \A r \in Ranks : opened[r] = {} /\ pos[r] = 0
        /\ report = prior
        /\ outdir = (prior # NoFile)
        /\ plotfile = FALSE

\* C6: the report is replaced atomically.  Whatever a reader loads is the
\* report as it was before the run or the complete report of this run.
C6_AtomicReport ==
    \/ observed = prior
    \/ /\ payload # None
       /\ observed = [state |-> "complete", run |-> "this", doc |-> payload]

\* A worker has failed, or writing the report has failed.
WorkerFailed == \E r \in Workers : pc[r] \in {"exited", "crashed"}
RunFailed == WorkerFailed \/ pc[0] = "ioerror"

\* C7: in a run in which a worker fails or writing the report fails, the
\* report file is what it was before the run: no partial report, and an
\* earlier report untouched.
C7_FailureLeavesReport == RunFailed => report = prior

\* C8: a worker failure fails the whole batch: once a worker has failed,
\* rank 0 eventually stops waiting in the gather.
C8_WorkerFailureAborts == WorkerFailed ~> (pc[0] \notin {"start", "gather"})

\* C9: static 1:1 fan-out.  The worker of rank i opens only the file at
\* roster position i-1 and its accumulator is built from that file alone;
\* once rank 0 is past the gather every roster position has been opened by
\* exactly one worker, and the accumulator paired with position k is the
\* accumulator of the file at position k.
C9_StaticFanOut ==
    /\ opened[0] = {}
    /\ \A r \in Workers :
           /\ opened[r] \subseteq {r - 1}
           /\ pc[r] \in {"reading", "done"} => opened[r] = {r - 1}
           /\ opened[r] # {} =>
                  stats[r] = analyze_lines(
                                 new_stats,
                                 SubSeq(disk[logs[r]][1], 1, pos[r]))
    /\ PastGather =>
           /\ worldSize - 1 = Len(logs)
           /\ \A k \in 1..Len(logs) :
                  /\ {r \in Workers : (k - 1) \in opened[r]} = {k}
                  /\ PairedStats(k) = analyze_file(logs[k])

\* Two workers with different files, both gathered and reduced.
C9_Witness ==
    /\ pc[0] = "mkdir"
    /\ Len(logs) = 2
    /\ logs[1] # logs[2]
    /\ disk[logs[1]] # disk[logs[2]]
    /\ opened[1] = {0}
    /\ opened[2] = {1}

\* C10: after the reduction the per-entity map has, for every file of the
\* roster, an entry keyed by the file's base name whose value is the
\* summary of that file's accumulator.
C10_PerEntityMap ==
    payload # None =>
        \A k \in 1..Len(logs) :
            \E i \in DOMAIN server_summaries :
                /\ server_summaries[i][1] = Stem(logs[k])
                /\ SummaryEq(server_summaries[i][2],
                             summarize_stats(PairedStats(k), TOP_K))

\* ---- accumulators reachable by absorbs and merges (ReachSpec)
RECURSIVE CounterTotal(_)
CounterTotal(c) == IF c = <<>> THEN 0 ELSE Head(c)[2] + CounterTotal(Tail(c))

\* C13: in every accumulator reachable by absorbs and merges, requests is
\* the sum of the counts of the status histogram, and of the path, method,
\* region and hour histograms.
C13_RequestsEqualHistogramSums ==
    \A k \in Slots :
        /\ part[k].requests = CounterTotal(part[k].status)
        /\ part[k].requests = CounterTotal(part[k].paths)
        /\ part[k].requests = CounterTotal(part[k].methods)
        /\ part[k].requests = CounterTotal(part[k].regions)
        /\ part[k].requests = CounterTotal(part[k].hours)

\* An accumulator of three requests with a repeated key in every histogram
\* but the status histogram.
C13_Witness ==
    /\ part[1].requests = 3
    /\ Len(part[1].status) = 3
    /\ Len(part[1].paths) = 2
    /\ Len(part[1].hours) = 2
    /\ part[2].requests > 0

\* The counts of the statuses >= 400.
RECURSIVE ErrorTotal(_)
ErrorTotal(c) ==
    IF c = <<>> THEN 0
    ELSE (IF Head(c)[1] >= 400 THEN Head(c)[2] ELSE 0) + ErrorTotal(Tail(c))

\* C14: in every accumulator reachable by absorbs and merges, errors is at
\* most requests and is the sum of the counts of the statuses >= 400; and
\* absorbing a record never decreases bytes.
C14_ErrorsAndBytes ==
    /\ [](\A k \in Slots :
              /\ part[k].errors <= part[k].requests
              /\ part[k].errors = ErrorTotal(part[k].status))
    /\ [][\A k \in Slots, record \in Records :
              ReachAbsorb(k, record) => part'[k].bytes >= part[k].bytes]_vars

\* Errors and successes in one accumulator, with bytes absorbed.
C14_Witness ==
    /\ part[1].requests = 3
    /\ part[1].errors = 1
    /\ CounterGet(part[1].status, 399) = 1
    /\ part[1].bytes > 0

\* Eight requests of status 200 and two of status 404.
TenRequests ==
    analyze_lines(new_stats,
                  <<GoodLine1, GoodLine1, GoodLine1, GoodLine1, GoodLine2,
                    GoodLine1, GoodLine1, GoodLine1, GoodLine1, GoodLine2>>)

\* C17: summarize gives error_rate = errors / requests when requests > 0
\* (2/10 for ten requests of which two are errors) and 0 when requests = 0;
\* the rate of every reachable accumulator lies between 0 and 1.
C17_ErrorRate ==
    /\ \A k \in Slots :
           LET rate == summarize_stats(part[k], TOP_K).error_rate
           IN /\ part[k].requests = 0 => rate = [num |-> 0, den |-> 1]
              /\ part[k].requests > 0 =>
                     /\ rate.den > 0
                     /\ rate.num * part[k].requests = part[k].errors * rate.den
              /\ 0 <= rate.num
              /\ rate.num <= rate.den
    /\ \* the example does not depend on the state: it is evaluated in the
       \* initial state only
       (\A k \in Slots : part[k] = new_stats) =>
           /\ TenRequests.requests = 10
           /\ TenRequests.errors = 2
           /\ LET rate == summarize_stats(TenRequests, TOP_K).error_rate
              IN rate.num * 10 = 2 * rate.den
           /\ summarize_stats(new_stats, TOP_K).error_rate.num = 0

\* One error among three requests, and an accumulator of errors only.
C17_Witness ==
    /\ part[1].requests = 3
    /\ part[1].errors = 1
    /\ part[2].requests = 2
    /\ part[2].errors = 2

\* C18: peak_hour is None exactly when requests = 0; otherwise it is an
\* hour of 0..23 whose count in the hour histogram is maximal.
C18_PeakHour ==
    \A k \in Slots :
        LET peak == summarize_stats(part[k], TOP_K).peak_hour
        IN /\ (peak = None) <=> (part[k].requests = 0)
           /\ peak # None =>
                  /\ peak[1] \in 0..23
                  /\ CounterGet(part[k].hours, peak[1]) > 0
                  /\ \A i \in DOMAIN part[k].hours :
                         part[k].hours[i][2] <= CounterGet(part[k].hours, peak[1])

\* The busiest hour is not the hour seen first.
C18_Witness ==
    /\ Len(part[1].hours) = 2
    /\ part[1].hours[1][2] < part[1].hours[2][2]
    /\ part[2].requests = 0

\* C19: for every top_k >= 0, top_paths has min(top_k, number of distinct
\* paths) entries, in non-increasing count, each an item of the path
\* histogram, no path twice, and no path left out has a greater count than
\* a path included.
C19_TopPaths ==
    \A k \in Slots, top_k \in 0..MaxTopK :
        LET top == summarize_stats(part[k], top_k).top_paths
            all == AsMap(part[k].paths)
        IN /\ Len(top) = Min(top_k, Len(part[k].paths))
           /\ Len(top) <= top_k
           /\ \A i \in DOMAIN top : top[i] \in all
           /\ \A i, j \in DOMAIN top :
                  /\ i < j => top[i][2] >= top[j][2]
                  /\ i # j => top[i][1] # top[j][1]
           /\ \A item \in all :
                  (\A i \in DOMAIN top : top[i] # item) =>
                      \A i \in DOMAIN top : item[2] <= top[i][2]

\* Two paths, the one seen second the more frequent: top_k = 1 leaves the
\* first out.
C19_Witness ==
    /\ Len(part[1].paths) = 2
    /\ part[1].paths[1][2] < part[1].paths[2][2]

\* ---- a dataset split over the parts (AccSpec)
\* C11: the merge of the per-file accumulators, in any order and either
\* grouping, equals field by field (histograms as maps) the accumulator of
\* a single pass over all the records.
C11_GlobalEqualsSinglePass ==
    /\ \A a, b, c \in Parts :
           (a # b /\ a # c /\ b # c) =>
               /\ StatsEq(MergeAll(<<part[a], part[b], part[c]>>), single)
               /\ StatsEq(merge_stats(part[a], merge_stats(part[b], part[c])),
                          single)
    /\ merged # None => StatsEq(merged[1], single)

\* Three records in three parts, merged, the merge inserting the keys in
\* another order than the single pass.
C11_Witness ==
    /\ merged # None
    /\ Len(dataset) = 3
    /\ \A k \in Parts : part[k].requests = 1
    /\ merged[1].hours # single.hours
    /\ merged[1].bytes > 0

\* The permutations of 1..n.
Perms(n) == {p \in [1..n -> 1..n] : \A i, j \in 1..n : p[i] = p[j] => i = j}

\* update_stats applied to the records in turn, from a fresh accumulator.
RECURSIVE AbsorbInto(_, _)
AbsorbInto(st, records) ==
    IF records = <<>> THEN st
    ELSE AbsorbInto(update_stats(st, Head(records)), Tail(records))

\* C12: order invariance of absorb.  Absorbing the records of the dataset
\* in any permutation gives the same scalars and the same five histograms
\* (as maps) as absorbing them in order of arrival.
C12_OrderInvariance ==
    \A p \in Perms(Len(dataset)) :
        StatsEq(AbsorbInto(new_stats,
                           [i \in 1..Len(dataset) |-> dataset[p[i]]]),
                single)

\* Three different records, whose reversal inserts the hours in another
\* order.
C12_Witness ==
    /\ Len(dataset) = 3
    /\ dataset[1] # dataset[2]
    /\ dataset[2] # dataset[3]
    /\ dataset[1].size # dataset[3].size
    /\ AbsorbInto(new_stats, <<dataset[3], dataset[2], dataset[1]>>).hours
           # single.hours

\* ---- rankings (ReduceSpec)
\* The roster position at which an entity name first occurs.
FirstPos(name) ==
    CHOOSE k \in DOMAIN logs :
        /\ Stem(logs[k]) = name
        /\ \A j \in DOMAIN logs : Stem(logs[j]) = name => k <= j

\* C15: busiest_server is None exactly when no entity has a request;
\* otherwise it names an entity whose total_requests is the maximum, and of
\* the entities tied at the maximum the one first in roster order.
C15_BusiestEntity ==
    payload # None =>
        LET items == payload[1].servers
            busiest == payload[1].rankings.busiest_server
        IN /\ (busiest = None) <=>
                  (\A i \in DOMAIN items : items[i][2].total_requests < 1)
           /\ busiest # None =>
                  \E i \in DOMAIN items :
                      /\ items[i][1] = busiest[1]
                      /\ items[i][2].total_requests >= 1
                      /\ \A j \in DOMAIN items :
                             /\ items[j][2].total_requests
                                    <= items[i][2].total_requests
                             /\ (j # i /\ items[j][2].total_requests
                                              = items[i][2].total_requests)
                                    => FirstPos(items[i][1])
                                           < FirstPos(items[j][1])

\* Three entities, the last two tied at the maximum.
C15_Witness ==
    /\ payload # None
    /\ Len(server_summaries) = 3
    /\ server_summaries[1][2].total_requests = 1
    /\ server_summaries[2][2].total_requests = 2
    /\ server_summaries[3][2].total_requests = 2
    /\ payload[1].rankings.busiest_server = Some(server_summaries[2][1])

\* C16: highest_error_server is None exactly when no entity has a request;
\* otherwise it names an entity with a request whose error_rate is the
\* maximum among the entities with a request, and of the entities tied at
\* the maximum the one first in roster order.
C16_HighestErrorEntity ==
    payload # None =>
        LET items == payload[1].servers
            highest == payload[1].rankings.highest_error_server
            Active == {i \in DOMAIN items : items[i][2].total_requests >= 1}
        IN /\ (highest = None) <=> (Active = {})
           /\ highest # None =>
                  \E i \in Active :
                      /\ items[i][1] = highest[1]
                      /\ \A j \in Active :
                             LET ri == items[i][2].error_rate
                                 rj == items[j][2].error_rate
                             IN /\ rj.num * ri.den <= ri.num * rj.den
                                /\ (j # i /\ rj.num * ri.den = ri.num * rj.den)
                                       => FirstPos(items[i][1])
                                              < FirstPos(items[j][1])

\* An entity without requests first, then two entities with requests and
\* no error: the second entity is named.
C16_Witness ==
    /\ payload # None
    /\ Len(server_summaries) = 3
    /\ server_summaries[1][2].total_requests = 0
    /\ server_summaries[2][2].total_requests = 1
    /\ server_summaries[2][2].error_rate.num = 0
    /\ server_summaries[3][2].error_rate.num = 0
    /\ server_summaries[3][2].total_requests = 1
    /\ payload[1].rankings.highest_error_server = Some(server_summaries[2][1])

\* ---- classification (ClassifySpec)
\* The prefix of the text that has no dot and ends at a dot or at the end
\* of the text.
LeadText(text) ==
    CHOOSE p \in {SubSeq(text, 1, k) : k \in 0..Len(text)} :
        /\ \A i \in DOMAIN p : p[i] # "."
        /\ Len(p) = Len(text) \/ text[Len(p) + 1] = "."

Pow10(k) == IF k = 0 THEN 1
            ELSE IF k = 1 THEN 10
            ELSE IF k = 2 THEN 100
            ELSE IF k = 3 THEN 1000
            ELSE IF k = 4 THEN 10000
            ELSE 100000

\* text is a decimal numeral of the natural number n, with leading zeros
\* and a leading plus sign allowed.
Denotes(text, n) ==
    LET body == IF text # <<>> /\ Head(text) = "+" THEN Tail(text) ELSE text
    IN /\ body # <<>>
       /\ \A i \in DOMAIN body : IsDigit(body[i])
       /\ n < Pow10(Len(body))
       /\ \A i \in DOMAIN body :
              DigitVal(body[i]) = (n \div Pow10(Len(body) - i)) % 10

RegionTable(n) ==
    IF 1 <= n /\ n <= 49 THEN "North America"
    ELSE IF 50 <= n /\ n <= 99 THEN "Europe"
    ELSE IF 100 <= n /\ n <= 149 THEN "Asia"
    ELSE IF 150 <= n /\ n <= 199 THEN "Africa"
    ELSE "Other"

\* C20: ip_to_region returns a region for every text; when the leading
\* dot-delimited component is a numeral of n, the region is the one of the
\* table at n; when it is a numeral of no number in 1..199 (0, 200 and
\* above, negative, empty, not a number) the region is Other; 49, 50, 99,
\* 100, 149, 150, 199 and 200 fall on the stated sides.
C20_ClassifyTotal ==
    region # None =>
        LET r == region[1]
            lead == LeadText(address)
        IN /\ r \in {"North America", "Europe", "Asia", "Africa", "Other"}
           /\ \A n \in 0..200 : Denotes(lead, n) => r = RegionTable(n)
           /\ (~ \E n \in 1..199 : Denotes(lead, n)) => r = "Other"
           /\ address = <<"4", "9">> => r = "North America"
           /\ address = <<"5", "0">> => r = "Europe"
           /\ address = <<"9", "9">> => r = "Europe"
           /\ address = <<"1", "0", "0">> => r = "Asia"
           /\ address = <<"1", "4", "9">> => r = "Asia"
           /\ address = <<"1", "5", "0">> => r = "Africa"
           /\ address = <<"1", "9", "9">> => r = "Africa"
           /\ address = <<"2", "0", "0">> => r = "Other"
           /\ address = <<"0">> => r = "Other"
           /\ address = <<"-", "5">> => r = "Other"
           /\ address \in {<<>>, <<".", "5">>, <<"x">>} => r = "Other"

\* The upper boundary of the last range has been classified.
C20_Witness ==
    /\ address = <<"1", "9", "9">>
    /\ region = Some("Africa")

\* ---- the scan of a file (ScanSpec)
\* Both the structural match and the timestamp parse succeed.
Parseable(line) == LOG_PATTERN(line) /\ strptime_ok(line)

\* The record of a parseable line, field by field.
RecordOf(line) ==
    [ip |-> line.ip, dt |-> [hour |-> line.hour], method |-> line.method,
     path |-> line.path,
     status |-> 100 * line.status[1] + 10 * line.status[2] + line.status[3],
     size |-> line.size]

\* The records of the parseable lines among the first n lines, in order.
ParsedUpTo(lines, n) ==
    LET kept == SelectSeq(SubSeq(lines, 1, n), Parseable)
    IN [i \in DOMAIN kept |-> RecordOf(kept[i])]

\* C21: while a worker scans its file its accumulator is a fresh one that
\* has absorbed exactly the parseable lines read so far, each once, so a
\* line failing the structural match or the timestamp parse changes no
\* field; a line whose status field is not three digits gives no record;
\* what the worker delivers at end of file is that accumulator for the
\* whole file.
C21_ExecuteAbsorbsParsedLines ==
    /\ \A line \in LinePool :
           Len(line.status) # 3 => parse_log_line(line) = None
    /\ pc[1] \in {"reading", "done"} =>
           stats[1] = AbsorbInto(new_stats,
                                 ParsedUpTo(disk[ScanPath][1], pos[1]))
    /\ pc[1] = "done" =>
           /\ pos[1] = Len(disk[ScanPath][1])
           /\ sent[1] = Some(stats[1])

\* A file with a line failing the structural match, a good line and a
\* line failing the timestamp parse has been scanned to its end.
C21_Witness ==
    /\ pc[1] = "done"
    /\ disk[ScanPath][1] = <<BadStatusLine, GoodLine1, BadTimeLine>>
    /\ sent[1][1].requests = 1

\* C22: every record of a successful parse has a status in 100..599 and a
\* size of at least 0, and every key of a status histogram lies in 100..599.
C22_StatusRange ==
    /\ \A i \in DOMAIN disk[ScanPath][1] :
           LET record == parse_log_line(disk[ScanPath][1][i])
           IN record # None =>
                  /\ record[1].status \in 100..599
                  /\ record[1].size >= 0
    /\ \A i \in DOMAIN stats[1].status : stats[1].status[i][1] \in 100..599

\* ---- absorb (ReachSpec)
\* `after` is `before` with the bucket of key one higher and every other
\* bucket as it was.
BucketDelta(before, after, key) ==
    /\ CounterGet(after, key) = CounterGet(before, key) + 1
    /\ \A i \in DOMAIN before :
           before[i][1] # key => CounterGet(after, before[i][1]) = before[i][2]
    /\ \A i \in DOMAIN after :
           after[i][1] = key \/ \E j \in DOMAIN before : before[j][1] = after[i][1]
    /\ \A i, j \in DOMAIN after : after[i][1] = after[j][1] => i = j

\* A request answered with status 400.
Record400 == [RecordOf(GoodLine2) EXCEPT !.status = 400]

\* C23: update_stats on any reachable accumulator and any record raises
\* requests by 1, bytes by the record's size, exactly one bucket by 1 in
\* each of the five histograms (status, path, method, region of the
\* address, hour), and errors by 1 exactly when the status is at least 400
\* (not for 399, for 400); nothing else changes.
C23_AbsorbDeltas ==
    \A k \in Slots, record \in Records \cup {Record400} :
        LET before == part[k]
            after == update_stats(part[k], record)
        IN /\ DOMAIN after = DOMAIN before
           /\ after.requests = before.requests + 1
           /\ after.bytes = before.bytes + record.size
           /\ BucketDelta(before.status, after.status, record.status)
           /\ BucketDelta(before.paths, after.paths, record.path)
           /\ BucketDelta(before.methods, after.methods, record.method)
           /\ BucketDelta(before.regions, after.regions,
                          ip_to_region(record.ip))
           /\ BucketDelta(before.hours, after.hours, record.dt.hour)
           /\ after.errors = before.errors
                                 + (IF record.status >= 400 THEN 1 ELSE 0)
           /\ record.status = 399 => after.errors = before.errors
           /\ record.status = 400 => after.errors = before.errors + 1

\* An accumulator that has absorbed a 399 and a 404: one error, two status
\* buckets.
C23_Witness ==
    \E k \in Slots :
        /\ part[k].requests = 2
        /\ part[k].errors = 1
        /\ CounterGet(part[k].status, 399) = 1
        /\ CounterGet(part[k].status, 404) = 1

\* ---- termination (SuccessSpec)
\* The worker count equals the number of files and every roster file exists.
SuccessPath ==
    /\ worldSize - 1 = Len(logs)
    /\ \A i \in DOMAIN logs : disk[logs[i]] # None

\* Every worker has read its file to the end and delivered, the gather has
\* completed, the report of this run is on disk in full and rank 0 has
\* returned.
Finished ==
    /\ \A r \in Workers :
           /\ pc[r] = "done"
           /\ pos[r] = Len(disk[logs[r]][1])
           /\ sent[r] # None
    /\ gathered # None
    /\ report = [state |-> "complete", run |-> "this", doc |-> payload]
    /\ pc[0] = "done"

\* C24: when the worker count equals F and every roster file exists and
\* can be read, then under fair scheduling every worker reaches end of
\* file and delivers, the gather completes, and rank 0 writes the report
\* and returns, for good.  The report file changes only between rank 0's
\* open and close, and it is truncated once.
C24_SuccessTerminates ==
    /\ SuccessPath ~> []Finished
    /\ [][report' # report =>
              /\ pc[0] \in {"open", "dump"}
              /\ report'.state = "empty" => report.run # "this"]_vars

\* A run over two files has finished.
C24_Witness ==
    /\ Len(logs) = 2
    /\ SuccessPath
    /\ Finished

\* ---- the report (Spec)
RECURSIVE SumOf(_)
SumOf(numbers) ==
    IF numbers = <<>> THEN 0 ELSE Head(numbers) + SumOf(Tail(numbers))

\* C25: in the report document, the global total_requests is the sum of
\* total_requests over the entries of the per-entity map, and the global
\* total_bytes the sum of their total_bytes.
C25_GlobalEqualsEntitySums ==
    payload # None =>
        LET servers == payload[1].servers
        IN /\ payload[1].global.total_requests
                  = SumOf([i \in DOMAIN servers |-> servers[i][2].total_requests])
           /\ payload[1].global.total_bytes
                  = SumOf([i \in DOMAIN servers |-> servers[i][2].total_bytes])

\* The accumulator of each roster file scanned on its own from its first
\* line to its last, in roster order.
FileStats == [i \in DOMAIN logs |-> analyze_lines(new_stats, disk[logs[i]][1])]

\* The report document as a function of the roster and the file contents.
ReportOf ==
    LET servers == SummariesLoop([i \in DOMAIN logs |-> <<logs[i], FileStats[i]>>],
                                 <<>>)
    IN [servers  |-> servers,
        global   |-> summarize_stats(MergeFrom(new_stats, FileStats), TOP_K),
        rankings |-> derive_rankings(servers)]

\* C26: whatever the interleaving of the workers and the order in which
\* they finish, the document rank 0 builds and the report it writes are the
\* one document determined by the roster and the file contents: per-entity
\* summaries, global summary with peak_hour and the order of top_paths, and
\* rankings.
C26_DeterministicReport ==
    /\ payload # None => payload[1] = ReportOf
    /\ report.run = "this" => report.doc = Some(ReportOf)

\* Two workers with different files have run and the report is written.
C26_Witness ==
    /\ Len(logs) = 2
    /\ disk[logs[1]] # disk[logs[2]]
    /\ Stem(logs[1]) # Stem(logs[2])
    /\ report.run = "this"
    /\ report.state = "complete"

\* C28: the summary the serial analyzer writes for the roster equals the
\* global summary of the parallel analyzer's report in every field, with
\* the same peak_hour and the same order of top_paths.
C28_SerialEqualsParallel ==
    report.run = "this" =>
        /\ SummaryEq(report.doc[1].global, serial_main)
        /\ report.doc[1].global.peak_hour = serial_main.peak_hour
        /\ report.doc[1].global.top_paths = serial_main.top_paths

\* Two files, three parseable lines over two paths and two hours, written.
C28_Witness ==
    /\ report.run = "this"
    /\ report.state = "complete"
    /\ Len(logs) = 2
    /\ report.doc[1].global.total_requests = 3
    /\ Len(report.doc[1].global.top_paths) = 2
    /\ report.doc[1].global.peak_hour = Some(2)

\* ---- merge_stats on objects (HeapSpec)
\* C27: merge_stats(target, incoming) on two distinct accumulators gives
\* the target the merged value, leaves incoming as it was in every field,
\* and creates no sharing: the two accumulators never refer to a common
\* Counter object, and a later update_stats or merge_stats on one changes
\* no field of the other, so the summary of incoming after the merge is
\* its summary before the merge.
C27_MergeLeavesIncoming ==
    /\ [](CountersOf("target") \cap CountersOf("incoming") = {})
    /\ [][\A t \in AccNames, i \in AccNames :
              HeapMerge(t, i) =>
                  /\ View(i)' = View(i)
                  /\ View(t)' = merge_stats(View(t), View(i))
                  /\ summarize_stats(View(i), TOP_K)'
                         = summarize_stats(View(i), TOP_K)]_vars
    /\ [][\A t \in AccNames, i \in AccNames, record \in Records :
              (t # i /\ HeapUpdate(t, record)) =>
                  /\ View(i)' = View(i)
                  /\ View(t)' = update_stats(View(t), record)]_vars

\* incoming has been merged into target and target has absorbed a record
\* since: target holds three requests, incoming still its two.
C27_Witness ==
    /\ objs["target"].requests = 3
    /\ objs["incoming"].requests = 2
    /\ View("target").bytes > View("incoming").bytes
    /\ Len(View("target").status) > Len(View("incoming").status)

\* ---- the summary cache (DashSpec)
\* C29: the cache never holds the content of a version together with the
\* modification time of a newer version; and when the file is complete and
\* no call is in flight, the next get_summary returns the version on disk:
\* the cache holds it, or is empty, or is older than the file.  A load that
\* fails leaves the cache as it was.
C29_CacheNeverStale ==
    /\ cache.data # None => cache.mtime < MtimeOf(cache.data[1] + 1)
    /\ ((\A t \in Threads : thr[t].pc = "idle") /\ sfile.content # None) =>
           \/ cache.data = None
           \/ cache.data = sfile.content
           \/ sfile.mtime > cache.mtime

\* ---- the raw window (RawSpec)
\* A line that parses and whose record satisfies the filters of the request.
Matching(line) ==
    /\ Parseable(line)
    /\ PassesFilters(RecordOf(line), raw.request[1])

\* C30: for every limit (0 included) and offset the response holds at most
\* min(limit, 2000) items, and they are the parseable records of the file
\* that satisfy all filters, in file order, after the first `offset` of
\* them.
C30_BoundedWindow ==
    raw.response # None =>
        LET req == raw.request[1]
            items == raw.response[1].items
            cap == IF req.limit <= RAW_LIMIT_CAP THEN req.limit
                   ELSE RAW_LIMIT_CAP
            matching == SelectSeq(raw.lines, Matching)
            last == IF req.offset + cap <= Len(matching)
                    THEN req.offset + cap ELSE Len(matching)
            window == SubSeq(matching, req.offset + 1, last)
        IN /\ Len(items) <= cap
           /\ items = [i \in DOMAIN window |-> RawItem(RecordOf(window[i]))]

====
